---- MODULE Spec2Model ----
(***************************************************************************)
(* A model of libssh's diffie-hellman group exchange, src/src/dh-gex.c:    *)
(* the client side handshake (ssh_client_dhgex_init and the two packet     *)
(* callbacks) and the server side selection of a group from the moduli     *)
(* file.                                                                   *)
(*                                                                         *)
(* Big numbers are small integers here and the group size limits are       *)
(* scaled down with them (DH_PMIN..DH_PMAX are bit lengths of these small  *)
(* integers).  Every primitive that dh-gex.c calls and that can fail       *)
(* (allocation, packing, unpacking, the secret generation, the modular     *)
(* exponentiation, the key import, the shared secret, the packet send) is  *)
(* an input of the action: the action picks the one primitive that fails,  *)
(* or none.                                                                *)
(***************************************************************************)
EXTENDS Integers, Sequences, FiniteSets, TLC

VARIABLES
    dh_handshake_state, \* session->dh_handshake_state
    session_state,      \* session->session_state
    packet_callbacks,   \* how often ssh_dhgex_client_callbacks is registered
    next_crypto,        \* session->next_crypto: the handshake context
    call,               \* the last call into this file, its inputs and result
    exchange_failed,    \* a callback marked the session failed since the
                        \* last ssh_client_dhgex_init
    sel_pc,             \* where ssh_retrieve_dhgroup is: idle, scan, scanned, done
    bounds,             \* its arguments pmin, pn, pmax
    open_files,         \* the moduli files opened and not closed
    line,               \* line of ssh_retrieve_dhgroup_file
    best_nlines,        \* best_nlines of ssh_retrieve_dhgroup_file
    size,               \* *size of ssh_retrieve_dhgroup, *best_size of the scan
    generator,          \* generator of ssh_retrieve_dhgroup, *best_generator
    modulus,            \* modulus of ssh_retrieve_dhgroup, *best_modulus
    group_p,            \* *p of ssh_retrieve_dhgroup
    group_g,            \* *g of ssh_retrieve_dhgroup
    sel_rc,             \* what the scan and then ssh_retrieve_dhgroup returned
    sel_fail,           \* the primitives that failed in this call
    seen,               \* the sizes of the qualifying records read in this call
    tied,               \* the qualifying records read at the best size since
                        \* it last changed: their lines and the random numbers
                        \* drawn for them, reduced
    reader,             \* the reading of a moduli file, field by field
    comparison          \* a call of dhgroup_better_size on its own

hvars == <<dh_handshake_state, session_state, packet_callbacks, next_crypto,
           call, exchange_failed>>

svars == <<sel_pc, bounds, open_files, line, best_nlines, size, generator,
           modulus, group_p, group_g, sel_rc, sel_fail, seen, tied>>

pvars == <<reader>>

bvars == <<comparison>>

vars == <<hvars, svars, pvars, bvars>>

(***************************************************************************)
(* Bounds of the model.                                                    *)
(***************************************************************************)
\* a received p ranges over -MaxNegP..MaxP, a received g over 0..MaxG
MaxNegP == 3
MaxP == 8
MaxG == 6
\* the secret x drawn by ssh_dh_generate_secret ranges over 1..MaxX
MaxX == 2
\* ssh_client_dhgex_init is not called again once the callbacks are
\* registered this often
MaxCallbacks == 2
\* pmin, pn, pmax and the sizes of the records range over 0..MaxSize
MaxSize == 3
\* the moduli file has at most MaxLines lines; the random number drawn by
\* invn_chance ranges over 0..MaxLines-1
MaxLines == 3
\* ssh_retrieve_dhgroup is called at most MaxCalls times
MaxCalls == 2
\* the first line of the moduli text has at most MaxFields fields
MaxFields == 8

(***************************************************************************)
(* Program constants.  The three group sizes are the ones packed into the  *)
(* request, scaled to the small numbers of the model.                      *)
(***************************************************************************)
DH_PMIN == 2
DH_PREQ == 2
DH_PMAX == 3

\* lines 265 and 267
SAFE_PRIME == 2
PRIM_TEST_REQUIRED == 4

Null == <<>>
Val(v) == <<v>>

\* a context with nothing allocated
NoCrypto ==
    [x |-> Null, e |-> Null, p |-> Null, g |-> Null, f |-> Null, k |-> Null,
     dh_group_is_mutable |-> 0]

\* ssh_dh_init_common: allocates the secret; with ok = FALSE it fails and
\* leaves nothing behind that ssh_dh_cleanup would not release
ssh_dh_init_common(crypto, ok) ==
    IF ok THEN [crypto EXCEPT !.x = Val(0)] ELSE [crypto EXCEPT !.x = Null]

\* ssh_dh_cleanup: releases the group, the key pair and the peer's value
ssh_dh_cleanup(crypto) ==
    [crypto EXCEPT !.x = Null, !.e = Null, !.p = Null, !.g = Null,
                   !.f = Null]

Abs(n) == IF n < 0 THEN 0 - n ELSE n

RECURSIVE NumBits(_)
\* bignum_num_bits: the bit length of the magnitude
NumBits(n) == IF Abs(n) = 0 THEN 0 ELSE 1 + NumBits(Abs(n) \div 2)

\* bignum_is_bit_set(p, 0)
IsBitSet0(n) == Abs(n) % 2 = 1

RECURSIVE ModExp(_, _, _)
\* bignum_mod_exp(e, g, x, p): g^x modulo the magnitude of p, reduced at
\* every step
ModExp(g, x, p) ==
    IF x = 0 THEN 1 % Abs(p)
    ELSE ((g % Abs(p)) * ModExp(g, x - 1, p)) % Abs(p)

(***************************************************************************)
(* The client handshake.                                                   *)
(***************************************************************************)
\* a packet handed to ssh_packet_send, and whether the send succeeded
Packet(type, payload, delivered) ==
    [type |-> type, payload |-> payload, delivered |-> delivered]

\* The record of a call: the primitive that failed in it, the states before
\* it, the group it decoded and the secret it drew (when it got that far),
\* the error text it set, the packets it handed to ssh_packet_send, and
\* what it returned.
NoCall ==
    [op |-> "none", fail |-> "none", rc |-> "none",
     pre_state |-> "INIT", pre_session |-> "NONE", pre_callbacks |-> 0,
     decoded |-> FALSE, p |-> 0, g |-> 0, x |-> 0,
     error |-> "", out |-> <<>>]

InitFailPoints == {"none", "ssh_dh_init_common", "ssh_buffer_pack",
                   "ssh_packet_send"}

\* lines 80-81: the callbacks are registered and the state is set before
\* the request is sent
InitRegistered(fail) == fail \in {"none", "ssh_packet_send"}

\* ssh_client_dhgex_init, lines 59-90
ssh_client_dhgex_init(fail) ==
    LET crypto1 == ssh_dh_init_common(next_crypto,
                                      fail # "ssh_dh_init_common")
        registered == InitRegistered(fail)
        request == Packet("GEX_REQUEST", <<DH_PMIN, DH_PREQ, DH_PMAX>>,
                          fail = "none")
    IN  /\ packet_callbacks < MaxCallbacks
        /\ packet_callbacks' =
               IF registered THEN packet_callbacks + 1 ELSE packet_callbacks
        /\ dh_handshake_state' =
               IF registered THEN "REQUEST_SENT" ELSE dh_handshake_state
        /\ next_crypto' =
               IF fail = "none" THEN crypto1 ELSE ssh_dh_cleanup(crypto1)
        /\ call' = [NoCall EXCEPT
                      !.op = "init", !.fail = fail,
                      !.rc = IF fail = "none" THEN "SSH_OK" ELSE "SSH_ERROR",
                      !.pre_state = dh_handshake_state,
                      !.pre_session = session_state,
                      !.pre_callbacks = packet_callbacks,
                      !.out = IF registered THEN <<request>> ELSE <<>>]
        /\ exchange_failed' = FALSE
        /\ UNCHANGED session_state

\* the state check of line 109 left out
GroupStateUnchecked(state) == TRUE

\* line 109: the state in which a DH_GEX_GROUP packet is expected
GroupStateExpected(state) == state = "REQUEST_SENT"

\* line 136: the size of p is outside the limits
GroupSizeOutOfRange(blen) == blen < DH_PMIN \/ blen > DH_PMAX

\* line 149: p is even
GroupModulusEven(p) == ~IsBitSet0(p)

\* lines 155-156 with the comparison against p-1 left out
GroupGeneratorRefusedNoUpper(g, one, pmin1) == g <= one

\* lines 155-156: the generator is refused
GroupGeneratorRefused(g, one, pmin1) == g <= one \/ g > pmin1

\* The checks of the received group, lines 135-160: the error text set and
\* whether the handler leaves through the error label, <<text, failed>>.
\* The comparison of p with one (lines 145-148) sets the text and goes on.
GroupValidate(p, g) ==
    IF GroupSizeOutOfRange(NumBits(p))
    THEN <<"Invalid dh group parameter p: not in range", TRUE>>
    ELSE LET text == IF p <= 1 THEN "Invalid dh group parameter p" ELSE ""
         IN  IF GroupModulusEven(p)
             THEN <<"Invalid dh group parameter p", TRUE>>
             ELSE IF GroupGeneratorRefused(g, 1, p - 1)
             THEN <<"Invalid dh group parameter g", TRUE>>
             ELSE <<text, FALSE>>

\* the primitives the group handler calls, in the order of the calls
GroupEarlyFailPoints == {"bignum_new", "ssh_buffer_unpack"}
GroupLateFailPoints == {"bignum_new_e", "bignum_mod_exp", "ssh_buffer_pack",
                        "ssh_packet_send"}

\* lines 105-189: <<text, failed>> of the whole handler
GroupChecks(state, fail, p, g) ==
    IF fail = "bignum_ctx_new" THEN <<"", TRUE>>
    ELSE IF ~GroupStateExpected(state)
    THEN <<"Received DH_GEX_GROUP in invalid state", TRUE>>
    ELSE IF fail = "bignum_new" THEN <<"oom", TRUE>>
    ELSE IF fail = "ssh_buffer_unpack"
    THEN <<"Invalid DH_GEX_GROUP packet", TRUE>>
    ELSE IF fail = "bignum_set_word" THEN <<"", TRUE>>
    ELSE IF GroupValidate(p, g)[2] THEN GroupValidate(p, g)
    ELSE IF fail = "bignum_new_e" THEN <<"oom", TRUE>>
    ELSE <<GroupValidate(p, g)[1],
           fail \in {"ssh_dh_generate_secret", "bignum_mod_exp",
                     "ssh_buffer_pack"}>>

\* lines 171-175 with the generator sent instead of its power
GroupPublicValueNoExp(g, x, p) == g % p

\* lines 171-175: the public value sent in DH_GEX_INIT
GroupPublicValue(g, x, p) == ModExp(g, x, p)

\* line 191: the state after DH_GEX_INIT is packed
GroupStateAfterInit == "INIT_SENT"

\* lines 198-207: the session state the error label leaves
GroupErrorSessionState == "ERROR"

\* lines 199-204 with the call of ssh_dh_cleanup left out
GroupErrorNoCleanup(crypto) == crypto

\* lines 199-204: what the error label leaves of the context
GroupErrorCleanup(crypto) == ssh_dh_cleanup(crypto)

\* ssh_packet_client_dhgex_group, lines 96-208
ssh_packet_client_dhgex_group(fail, p, g, x) ==
    LET checks == GroupChecks(dh_handshake_state, fail, p, g)
        failed == checks[2]
        \* line 121 and lines 122-125 are reached
        decoded == /\ fail \notin {"bignum_ctx_new"} \cup GroupEarlyFailPoints
                   /\ GroupStateExpected(dh_handshake_state)
        mutable == decoded \/ (fail = "ssh_buffer_unpack"
                               /\ GroupStateExpected(dh_handshake_state))
        e == GroupPublicValue(g, x, p)
    IN  /\ packet_callbacks > 0
        /\ dh_handshake_state' =
               IF failed THEN dh_handshake_state ELSE GroupStateAfterInit
        /\ session_state' =
               IF failed THEN GroupErrorSessionState ELSE session_state
        /\ next_crypto' =
               IF failed
               THEN GroupErrorCleanup(
                        [next_crypto EXCEPT
                           !.dh_group_is_mutable = IF mutable THEN 1 ELSE @,
                           !.p = IF decoded THEN Val(p) ELSE @,
                           !.g = IF decoded THEN Val(g) ELSE @])
               ELSE [next_crypto EXCEPT !.dh_group_is_mutable = 1,
                                        !.p = Val(p), !.g = Val(g),
                                        !.x = Val(x), !.e = Val(e)]
        /\ call' = [NoCall EXCEPT
                      !.op = "group", !.fail = fail,
                      !.rc = "SSH_PACKET_USED",
                      !.pre_state = dh_handshake_state,
                      !.pre_session = session_state,
                      !.pre_callbacks = packet_callbacks,
                      !.decoded = decoded,
                      !.p = p, !.g = g, !.x = x,
                      !.error = checks[1],
                      !.out = IF failed THEN <<>>
                              ELSE <<Packet("GEX_INIT", <<e>>,
                                            fail # "ssh_packet_send")>>]
        /\ exchange_failed' = (failed \/ exchange_failed)
        /\ UNCHANGED packet_callbacks

ReplyFailPoints == {"none", "ssh_buffer_unpack",
                    "ssh_dh_import_next_pubkey_blob", "ssh_dh_build_k",
                    "ssh_buffer_add_u8", "ssh_packet_send"}

\* lines 246-249 with the result of ssh_packet_send not looked at
ReplyFailedSendUnchecked(fail) == fail \notin {"none", "ssh_packet_send"}

\* lines 220-249: every primitive that fails leads to the error label
ReplyFailed(fail) == fail # "none"

\* line 251: the state after NEWKEYS is sent
ReplyStateAfterNewkeys == "NEWKEYS_SENT"

\* lines 254-258: the session state the error label leaves
ReplyErrorSessionState == "ERROR"

\* ssh_packet_client_dhgex_reply, lines 210-259
ssh_packet_client_dhgex_reply(fail) ==
    LET failed == ReplyFailed(fail)
        decoded == fail # "ssh_buffer_unpack"
        built == fail \notin {"ssh_buffer_unpack",
                              "ssh_dh_import_next_pubkey_blob",
                              "ssh_dh_build_k"}
    IN  /\ packet_callbacks > 0
        /\ packet_callbacks' = packet_callbacks - 1
        /\ dh_handshake_state' =
               IF failed THEN dh_handshake_state ELSE ReplyStateAfterNewkeys
        /\ session_state' =
               IF failed THEN ReplyErrorSessionState ELSE session_state
        /\ next_crypto' =
               LET crypto1 == [next_crypto EXCEPT
                                 !.f = IF decoded THEN Val(1) ELSE @,
                                 !.k = IF built THEN Val(1) ELSE @]
               IN  IF failed THEN ssh_dh_cleanup(crypto1) ELSE crypto1
        /\ call' = [NoCall EXCEPT
                      !.op = "reply", !.fail = fail,
                      !.rc = "SSH_PACKET_USED",
                      !.pre_state = dh_handshake_state,
                      !.pre_session = session_state,
                      !.pre_callbacks = packet_callbacks,
                      !.decoded = decoded,
                      !.error =
                          IF fail = "ssh_buffer_unpack"
                          THEN "Invalid DH_GEX_REPLY packet"
                          ELSE IF fail = "ssh_dh_build_k"
                          THEN "Could not generate shared secret"
                          ELSE "",
                      !.out = IF fail \in {"none", "ssh_packet_send"}
                              THEN <<Packet("NEWKEYS", <<>>, fail = "none")>>
                              ELSE <<>>]
        /\ exchange_failed' = (failed \/ exchange_failed)

HandshakeInit ==
    /\ dh_handshake_state = "INIT"
    /\ session_state = "NONE"
    /\ packet_callbacks = 0
    /\ next_crypto = NoCrypto
    /\ call = NoCall
    /\ exchange_failed = FALSE

\* What a call of the group handler can meet in the given state: a primitive
\* fails only if the handler calls it, the packet has a content only if the
\* handler decodes it, and a secret is drawn only if the group passed.
GroupInputs(state) ==
    LET in(f, p, g, x) == [fail |-> f, p |-> p, g |-> g, x |-> x]
    IN  {in("bignum_ctx_new", 0, 0, 0)} \cup
        IF ~GroupStateExpected(state) THEN {in("none", 0, 0, 0)}
        ELSE {in(f, 0, 0, 0) : f \in GroupEarlyFailPoints} \cup
             UNION {
               {in("bignum_set_word", p, g, 0)} \cup
               IF GroupValidate(p, g)[2] THEN {in("none", p, g, 0)}
               ELSE {in("ssh_dh_generate_secret", p, g, 0)} \cup
                    {in(f, p, g, x) :
                        f \in {"none"} \cup GroupLateFailPoints,
                        x \in 1..MaxX}
               : p \in (0 - MaxNegP)..MaxP, g \in 0..MaxG}

(***************************************************************************)
(* The selection of a group from the moduli file, server side.             *)
(*                                                                         *)
(* The file is read line by line and a line is chosen when it is read.  A  *)
(* string copied from a record is modelled by the record it is copied      *)
(* from: the number of its line, its type, its tests and its size.  The    *)
(* size fields are below SIZE_MAX: size + 1 does not wrap.                 *)
(***************************************************************************)

\* lines 306-308 left out: a smaller size at or above pn is not better
dhgroup_better_size_no_closer_above(pmin, pn, pmax, current_size, proposed_size) ==
    IF current_size = proposed_size THEN FALSE
    ELSE IF current_size = pn THEN FALSE
    ELSE IF current_size = 0 /\ proposed_size >= pmin /\ proposed_size <= pmax
    THEN TRUE
    ELSE IF proposed_size < pmin \/ proposed_size > pmax THEN FALSE
    ELSE IF current_size = 0 THEN FALSE
    ELSE IF proposed_size <= pn /\ proposed_size > current_size THEN TRUE
    ELSE IF proposed_size >= pn /\ current_size < pn THEN TRUE
    ELSE FALSE

\* dhgroup_better_size, lines 277-320
dhgroup_better_size(pmin, pn, pmax, current_size, proposed_size) ==
    IF current_size = proposed_size THEN FALSE
    ELSE IF current_size = pn THEN FALSE
    ELSE IF current_size = 0 /\ proposed_size >= pmin /\ proposed_size <= pmax
    THEN TRUE
    ELSE IF proposed_size < pmin \/ proposed_size > pmax THEN FALSE
    ELSE IF current_size = 0 THEN FALSE
    ELSE IF proposed_size >= pn /\ proposed_size < current_size THEN TRUE
    ELSE IF proposed_size <= pn /\ proposed_size > current_size THEN TRUE
    ELSE IF proposed_size >= pn /\ current_size < pn THEN TRUE
    ELSE FALSE

\* line 330 with the random number left out: always 1
invn_chance_always(n, nounce) == TRUE

\* invn_chance, lines 326-331
invn_chance(n, nounce) == (nounce % n) = 0

\* line 387 with the test of the type left out
RecordQualifiesAnyType(type, tests) ==
    ~((tests \div PRIM_TEST_REQUIRED) % 2 = 0)

\* line 387: the record is a safe prime that was tested
RecordQualifies(type, tests) ==
    ~(type # SAFE_PRIME \/ (tests \div PRIM_TEST_REQUIRED) % 2 = 0)

\* the string of a field of a record
StringOf(field, lineno, type, tests, proposed_size) ==
    [field |-> field, line |-> lineno, type |-> type, tests |-> tests,
     size |-> proposed_size]

SelInit ==
    /\ sel_pc = "idle"
    /\ bounds = [pmin |-> 0, pn |-> 0, pmax |-> 0]
    /\ open_files = 0
    /\ line = 0
    /\ best_nlines = 0
    /\ size = 0
    /\ generator = Null
    /\ modulus = Null
    /\ group_p = Null
    /\ group_g = Null
    /\ sel_rc = "none"
    /\ sel_fail = {}
    /\ seen = {}
    /\ tied = <<>>

\* ssh_retrieve_dhgroup, lines 450-472: the file is opened and the results
\* are reset; the scan starts with its own counters at zero (lines 350-351).
\* When the file does not open the arguments are never looked at.
ssh_retrieve_dhgroup_open(pmin, pn, pmax, opened) ==
    /\ sel_pc \in {"idle", "done"}
    /\ open_files < MaxCalls
    /\ bounds' = IF opened THEN [pmin |-> pmin, pn |-> pn, pmax |-> pmax]
                 ELSE bounds
    /\ seen' = {}
    /\ tied' = <<>>
    /\ generator' = Null
    /\ modulus' = Null
    /\ line' = 0
    /\ best_nlines' = 0
    /\ IF opened
       THEN /\ sel_pc' = "scan"
            /\ open_files' = open_files + 1
            /\ size' = 0
            /\ group_p' = Null
            /\ group_g' = Null
            /\ sel_rc' = "none"
            /\ sel_fail' = {}
       ELSE /\ sel_pc' = "done"
            /\ sel_rc' = "SSH_ERROR"
            /\ sel_fail' = {"fopen"}
            /\ UNCHANGED <<open_files, size, group_p, group_g>>

\* one turn of the loop of ssh_retrieve_dhgroup_file that ends the scan:
\* the end of the file, lines 353-364 and 416-430
ssh_retrieve_dhgroup_file_eof ==
    /\ sel_pc = "scan"
    /\ line' = line + 1
    /\ sel_pc' = "scanned"
    /\ sel_rc' = "SSH_OK"
    /\ UNCHANGED <<bounds, open_files, best_nlines, size, generator, modulus,
                   group_p, group_g, sel_fail, seen, tied>>

\* one turn of the loop over a comment (lines 356-361) or over a line that
\* does not have seven fields (lines 375-384)
ssh_retrieve_dhgroup_file_skip ==
    /\ sel_pc = "scan"
    /\ line < MaxLines
    /\ line' = line + 1
    /\ UNCHANGED <<sel_pc, bounds, open_files, best_nlines, size, generator,
                   modulus, group_p, group_g, sel_rc, sel_fail, seen,
                   tied>>

\* the primitives of a turn of the loop that can fail
ScanFailPoints == {"none", "strdup_generator", "strdup_modulus"}

\* one turn of the loop over a record of seven fields, lines 386-414
ssh_retrieve_dhgroup_file_record(type, tests, rsize, nounce, fail) ==
    LET proposed_size == rsize + 1
        better == /\ proposed_size # size
                  /\ dhgroup_better_size(bounds.pmin, bounds.pn, bounds.pmax,
                                         size, proposed_size)
        best_size1 == IF better THEN proposed_size ELSE size
        nlines0 == IF better THEN 0 ELSE best_nlines
        nlines1 == IF proposed_size = best_size1 THEN nlines0 + 1 ELSE nlines0
        taken == proposed_size = best_size1 /\ invn_chance(nlines1, nounce)
        str(field) == StringOf(field, line + 1, type, tests, proposed_size)
    IN  /\ sel_pc = "scan"
        /\ line < MaxLines
        /\ line' = line + 1
        /\ IF ~RecordQualifies(type, tests)
           THEN /\ fail = "none" /\ nounce = 0
                /\ UNCHANGED <<sel_pc, best_nlines, size, generator, modulus,
                               sel_rc, sel_fail, seen, tied>>
           ELSE /\ seen' = seen \cup {proposed_size}
                /\ size' = best_size1
                /\ best_nlines' = nlines1
                /\ tied' =
                       LET since == IF size' # size THEN <<>> ELSE tied
                       IN  IF proposed_size = size'
                           THEN Append(since,
                                       [line |-> line + 1,
                                        draw |-> nounce % (Len(since) + 1)])
                           ELSE since
                /\ proposed_size # best_size1 => nounce = 0
                /\ IF ~taken
                   THEN /\ fail = "none"
                        /\ UNCHANGED <<sel_pc, generator, modulus, sel_rc,
                                       sel_fail>>
                   ELSE /\ generator' = IF fail = "none"
                                        THEN Val(str("generator")) ELSE Null
                        /\ modulus' = IF fail = "none"
                                      THEN Val(str("modulus")) ELSE Null
                        /\ sel_pc' = IF fail = "none" THEN sel_pc
                                     ELSE "scanned"
                        /\ sel_rc' = IF fail = "none" THEN sel_rc
                                     ELSE "SSH_ERROR"
                        /\ sel_fail' = IF fail = "none" THEN sel_fail
                                       ELSE sel_fail \cup {fail}
        /\ UNCHANGED <<bounds, open_files, group_p, group_g>>

\* the conversions of ssh_retrieve_dhgroup that can fail
FinishFailPoints == {"none", "bignum_hex2bn_g", "bignum_hex2bn_p"}

\* line 481 with the result of the scan not looked at
RetrieveFailedSizeOnly(rc, best_size) == best_size = 0

\* line 481: the scan failed or found no size
RetrieveFailed(rc, best_size) == rc = "SSH_ERROR" \/ best_size = 0

\* ssh_retrieve_dhgroup after the scan, lines 481-504; the counters of the
\* scan are gone with it
ssh_retrieve_dhgroup_finish(fail) ==
    LET error == RetrieveFailed(sel_rc, size)
        failed == error \/ fail # "none"
    IN  /\ sel_pc = "scanned"
        /\ error => fail = "none"
        /\ sel_pc' = "done"
        /\ sel_rc' = IF failed THEN "SSH_ERROR" ELSE "SSH_OK"
        /\ sel_fail' = IF fail = "none" THEN sel_fail
                       ELSE sel_fail \cup {fail}
        /\ group_g' = IF failed THEN Null ELSE generator
        /\ group_p' = IF failed THEN Null ELSE modulus
        /\ generator' = Null
        /\ modulus' = Null
        /\ line' = 0
        /\ best_nlines' = 0
        /\ tied' = <<>>
        /\ UNCHANGED <<bounds, open_files, size, seen>>

(***************************************************************************)
(* The reading of the moduli file, lines 353-384, field by field.          *)
(*                                                                         *)
(* The text is a sequence of fields and ends of lines.  A field is a       *)
(* number (what %zu converts), or a word (what only %s converts); a word   *)
(* can begin with '#'.  It keeps the line and the column it stands at.     *)
(* Fields are shorter than the widths of the format.                       *)
(***************************************************************************)
\* the text of the moduli file: fields and ends of lines
moduli == reader.moduli
\* the position of the stream in it
moduli_pos == reader.moduli_pos
\* the entries fscanf has delivered with rc = 7
entries == reader.entries
\* the reading of the text: idle, scan, done
moduli_pc == reader.moduli_pc

EndOfLine == [kind |-> "nl"]

Field(kind, val, lineno, col) ==
    [kind |-> kind, val |-> val, line |-> lineno, col |-> col]

\* the conversions of the format of line 367
Format == <<"s", "zu", "zu", "zu", "zu", "s", "s">>

\* what fscanf returns on an input failure before the first conversion
EOF == 0 - 1

RECURSIVE SkipSpace(_, _)
\* white space in a format, and before a conversion, matches any amount of
\* white space, ends of lines included
SkipSpace(text, i) ==
    IF i > Len(text) THEN i
    ELSE IF text[i].kind = "nl" THEN SkipSpace(text, i + 1)
    ELSE i

RECURSIVE SkipLine(_, _)
\* lines 357-359 and 380-382: read up to the end of the line, or of the file
SkipLine(text, i) ==
    IF i > Len(text) THEN i
    ELSE IF text[i].kind = "nl" THEN i + 1
    ELSE SkipLine(text, i + 1)

RECURSIVE fscanf(_, _, _, _)
\* fscanf of lines 366-374 from position i, at conversion d: the number of
\* conversions done, the position it leaves, the fields converted
fscanf(text, i, d, fields) ==
    IF d > Len(Format)
    THEN [rc |-> Len(Format), pos |-> SkipSpace(text, i), fields |-> fields]
    ELSE LET j == SkipSpace(text, i)
         IN  IF j > Len(text)
             THEN [rc |-> IF d = 1 THEN EOF ELSE d - 1, pos |-> j,
                   fields |-> fields]
             ELSE IF Format[d] = "zu" /\ text[j].kind # "num"
             THEN [rc |-> d - 1, pos |-> j, fields |-> fields]
             ELSE fscanf(text, j + 1, d + 1, Append(fields, text[j]))

\* line 355: the first byte is '#'
FirstByteHash == moduli_pos <= Len(moduli) /\ moduli[moduli_pos].kind = "hash"

\* line 362: the first byte is EOF
FirstByteEOF == moduli_pos > Len(moduli)

\* lines 366-374 of this turn of the loop
Scanned == fscanf(moduli, moduli_pos, 1, <<>>)

ModuliIdle ==
    reader = [moduli |-> <<>>, moduli_pos |-> 1, entries |-> <<>>,
              moduli_pc |-> "idle"]

\* a turn of the loop over a comment, lines 356-361
ssh_retrieve_dhgroup_file_comment ==
    /\ moduli_pc = "scan"
    /\ FirstByteHash
    /\ reader' = [reader EXCEPT !.moduli_pos = SkipLine(moduli, moduli_pos)]

\* the turn of the loop that leaves it, lines 362-364 and 376-378
ssh_retrieve_dhgroup_file_break ==
    /\ moduli_pc = "scan"
    /\ ~FirstByteHash
    /\ FirstByteEOF \/ Scanned.rc = EOF
    /\ reader' = [reader EXCEPT !.moduli_pos = Len(moduli) + 1,
                                !.moduli_pc = "done"]

\* a turn of the loop over an invalid entry, lines 375-384
ssh_retrieve_dhgroup_file_invalid ==
    /\ moduli_pc = "scan"
    /\ ~FirstByteHash /\ ~FirstByteEOF
    /\ Scanned.rc \notin {Len(Format), EOF}
    /\ reader' = [reader EXCEPT !.moduli_pos = SkipLine(moduli, Scanned.pos)]

\* a turn of the loop over seven converted fields, which go on to line 386
ssh_retrieve_dhgroup_file_entry ==
    /\ moduli_pc = "scan"
    /\ ~FirstByteHash /\ ~FirstByteEOF
    /\ Scanned.rc = Len(Format)
    /\ reader' = [reader EXCEPT !.entries = Append(entries, Scanned.fields),
                                !.moduli_pos = Scanned.pos]

\* a well-formed line of the moduli file: timestamp, type, tests, tries,
\* size, generator, modulus; the timestamp is a number or not
ModuliLine(lineno, numeric_timestamp) ==
    <<Field(IF numeric_timestamp THEN "num" ELSE "word", 9, lineno, 1),
      Field("num", SAFE_PRIME, lineno, 2),
      Field("num", 2 + PRIM_TEST_REQUIRED, lineno, 3),
      Field("num", 1, lineno, 4),
      Field("num", 2, lineno, 5),
      Field("num", 2, lineno, 6),
      Field("word", 0, lineno, 7)>>

\* the fields a line can hold: words and numbers
FieldKinds == {<<"word", 0>>, <<"num", SAFE_PRIME>>,
               <<"num", 2 + PRIM_TEST_REQUIRED>>}

\* the first lines of n fields; the first field can begin with '#'
AnyLines(n) ==
    {[c \in 1..n |-> Field(l[c][1], l[c][2], 1, c)] :
         l \in [1..n -> FieldKinds]} \cup
    {[c \in 1..n |-> IF c = 1 THEN Field("hash", 0, 1, c)
                     ELSE Field(l[c][1], l[c][2], 1, c)] :
         l \in [1..n -> FieldKinds]}

\* a moduli file of two lines: any line, then a well-formed one
ModuliInit ==
    \E n \in 0..MaxFields : \E first \in AnyLines(n),
                               numeric_timestamp \in BOOLEAN :
        reader = [moduli |-> first \o <<EndOfLine>> \o
                             ModuliLine(2, numeric_timestamp) \o
                             <<EndOfLine>>,
                  moduli_pos |-> 1, entries |-> <<>>, moduli_pc |-> "scan"]

(***************************************************************************)
(* dhgroup_better_size on its own.                                         *)
(***************************************************************************)
\* the arguments of the call
cmp_in == comparison.cmp_in
\* and what it returned
cmp_out == comparison.cmp_out

CompareIdle ==
    comparison = [cmp_in |-> [pmin |-> 0, pn |-> 0, pmax |-> 0,
                              current_size |-> 0, proposed_size |-> 0],
                  cmp_out |-> Null]

CompareInit ==
    \E in \in [pmin : 0..MaxSize, pn : 0..MaxSize, pmax : 0..MaxSize,
                current_size : 0..MaxSize, proposed_size : 0..MaxSize] :
        comparison = [cmp_in |-> in, cmp_out |-> Null]

\* a call of dhgroup_better_size
Compare ==
    /\ cmp_out = Null
    /\ comparison' =
           [comparison EXCEPT
              !.cmp_out = Val(dhgroup_better_size(cmp_in.pmin, cmp_in.pn,
                                                  cmp_in.pmax,
                                                  cmp_in.current_size,
                                                  cmp_in.proposed_size))]

(***************************************************************************)
(* The specifications.                                                     *)
(***************************************************************************)
Initiate ==
    /\ \E fail \in InitFailPoints : ssh_client_dhgex_init(fail)
    /\ UNCHANGED <<svars, pvars, bvars>>

\* a DH_GEX_GROUP packet is dispatched to the registered callback
OnGroupMessage ==
    /\ \E in \in GroupInputs(dh_handshake_state) :
           ssh_packet_client_dhgex_group(in.fail, in.p, in.g, in.x)
    /\ UNCHANGED <<svars, pvars, bvars>>

\* a DH_GEX_REPLY packet is dispatched to the registered callback
OnReplyMessage ==
    /\ \E fail \in ReplyFailPoints : ssh_packet_client_dhgex_reply(fail)
    /\ UNCHANGED <<svars, pvars, bvars>>

Init == HandshakeInit /\ SelInit /\ ModuliIdle /\ CompareIdle

Next == Initiate \/ OnGroupMessage \/ OnReplyMessage

\* the client handshake
Spec == Init /\ [][Next]_vars

Retrieve ==
    /\ \E pmin \in 0..MaxSize, pn \in 0..MaxSize, pmax \in 0..MaxSize,
          opened \in BOOLEAN :
           ssh_retrieve_dhgroup_open(pmin, pn, pmax, opened)
    /\ UNCHANGED <<hvars, pvars, bvars>>

ScanEof ==
    /\ ssh_retrieve_dhgroup_file_eof
    /\ UNCHANGED <<hvars, pvars, bvars>>

ScanSkip ==
    /\ ssh_retrieve_dhgroup_file_skip
    /\ UNCHANGED <<hvars, pvars, bvars>>

ScanRecord ==
    /\ \E type \in {1, SAFE_PRIME},
          tests \in {2, 2 + PRIM_TEST_REQUIRED},
          rsize \in 0..(MaxSize - 1),
          nounce \in 0..(MaxLines - 1),
          fail \in ScanFailPoints :
           ssh_retrieve_dhgroup_file_record(type, tests, rsize, nounce, fail)
    /\ UNCHANGED <<hvars, pvars, bvars>>

Finish ==
    /\ \E fail \in FinishFailPoints : ssh_retrieve_dhgroup_finish(fail)
    /\ UNCHANGED <<hvars, pvars, bvars>>

SelNext == Retrieve \/ ScanEof \/ ScanSkip \/ ScanRecord \/ Finish

\* the selection of a group
SpecSel == Init /\ [][SelNext]_vars

ReadComment ==
    /\ ssh_retrieve_dhgroup_file_comment
    /\ UNCHANGED <<hvars, svars, bvars>>

ReadBreak ==
    /\ ssh_retrieve_dhgroup_file_break
    /\ UNCHANGED <<hvars, svars, bvars>>

ReadInvalid ==
    /\ ssh_retrieve_dhgroup_file_invalid
    /\ UNCHANGED <<hvars, svars, bvars>>

ReadEntry ==
    /\ ssh_retrieve_dhgroup_file_entry
    /\ UNCHANGED <<hvars, svars, bvars>>

ReadNext == ReadComment \/ ReadBreak \/ ReadInvalid \/ ReadEntry

\* the reading of a moduli file
InitRead == HandshakeInit /\ SelInit /\ ModuliInit /\ CompareIdle

SpecRead == InitRead /\ [][ReadNext]_vars

CompareNext == Compare /\ UNCHANGED <<hvars, svars, pvars>>

\* the comparison of two sizes
InitCompare == HandshakeInit /\ SelInit /\ ModuliIdle /\ CompareInit

SpecCompare == InitCompare /\ [][CompareNext]_vars

(***************************************************************************)
(* The claims about the handshake.                                         *)
(***************************************************************************)
\* the context is torn down: group, key pair and peer data are released
TornDown(crypto) ==
    /\ crypto.x = Null /\ crypto.e = Null
    /\ crypto.p = Null /\ crypto.g = Null
    /\ crypto.f = Null

\* the last call emitted no packet of the given type
NotEmitted(type) == \A i \in 1..Len(call.out) : call.out[i].type # type

\* the last call, of the group handler, rejected the packet
GroupRejected ==
    /\ session_state = "ERROR"
    /\ NotEmitted("GEX_INIT")
    /\ dh_handshake_state = call.pre_state
    /\ ~(call.pre_state # "INIT_SENT" /\ dh_handshake_state = "INIT_SENT")

\* the bit length of p lies in [lo, hi], from the powers of two
BitLengthIn(p, lo, hi) ==
    \E b \in lo..hi : 2^(b - 1) <= Abs(p) /\ Abs(p) < 2^b

\* C1: a DH_GEX_GROUP packet handled in any state other than REQUEST_SENT
\* moves the session to ERROR, tears the context down, emits no DH_GEX_INIT,
\* leaves the handshake state as it was, and is reported as used.
C1_GroupInUnexpectedState ==
    (call.op = "group" /\ call.pre_state # "REQUEST_SENT") =>
        /\ GroupRejected
        /\ TornDown(next_crypto)
        /\ call.rc = "SSH_PACKET_USED"

C1_Witness ==
    /\ call.op = "group"
    /\ call.pre_state = "INIT_SENT"
    /\ call.fail = "none"
    /\ session_state = "ERROR"

\* C2: every received group with g <= 1 or g >= p-1 is rejected (as the
\* claim states it: g = p-1 included).
C2_GeneratorBound ==
    (call.op = "group" /\ call.decoded
     /\ (call.g <= 1 \/ call.g >= call.p - 1)) =>
        GroupRejected

\* C3: every received group whose p has a bit length outside
\* [DH_PMIN, DH_PMAX], or is <= 1 (zero and negative included), or is even,
\* is rejected as a whole: session ERROR, context torn down, no DH_GEX_INIT,
\* the state not INIT_SENT.
C3_ModulusChecks ==
    (call.op = "group" /\ call.decoded
     /\ (\/ ~BitLengthIn(call.p, DH_PMIN, DH_PMAX)
         \/ call.p <= 1
         \/ call.p % 2 = 0)) =>
        /\ GroupRejected
        /\ TornDown(next_crypto)

\* a negative odd p of an accepted size: it passes lines 135-153
C3_Witness ==
    /\ call.op = "group" /\ call.decoded /\ call.fail = "none"
    /\ call.p < 0
    /\ BitLengthIn(call.p, DH_PMIN, DH_PMAX)
    /\ call.p % 2 = 1
    /\ call.g > 1
    /\ session_state = "ERROR"

\* C4: in REQUEST_SENT, with a group of an accepted size, p odd, p > 1 and
\* 1 < g < p-1, and none of the allocation, the secret generation, the
\* exponentiation and the packing failing, the handler hands exactly one
\* DH_GEX_INIT carrying e = g^x mod p to the transport, sets INIT_SENT,
\* does not mark the session ERROR and reports the packet as used.
C4_Acceptance ==
    (/\ call.op = "group" /\ call.decoded
     /\ call.pre_state = "REQUEST_SENT"
     /\ call.fail \in {"none", "ssh_packet_send"}
     /\ BitLengthIn(call.p, DH_PMIN, DH_PMAX)
     /\ call.p % 2 = 1 /\ call.p > 1
     /\ 1 < call.g /\ call.g < call.p - 1) =>
        /\ Len(call.out) = 1
        /\ call.out[1].type = "GEX_INIT"
        /\ call.out[1].payload = <<(call.g ^ call.x) % call.p>>
        /\ call.fail = "none" => call.out[1].delivered
        /\ dh_handshake_state = "INIT_SENT"
        /\ session_state = call.pre_session
        /\ call.rc = "SSH_PACKET_USED"

C4_Witness ==
    /\ call.op = "group" /\ call.fail = "none"
    /\ call.pre_state = "REQUEST_SENT"
    /\ 1 < call.g /\ call.g < call.p - 1
    /\ call.x = MaxX
    /\ dh_handshake_state = "INIT_SENT"
    /\ session_state = "NONE"
    /\ Len(call.out) = 1

\* the failures the two handlers detect
C5_Failure ==
    \/ /\ call.op = "group"
       /\ \/ call.fail \notin {"none", "ssh_packet_send"}
          \/ call.pre_state # "REQUEST_SENT"
          \/ /\ call.decoded
             /\ \/ ~BitLengthIn(call.p, DH_PMIN, DH_PMAX)
                \/ call.p <= 1
                \/ call.p % 2 = 0
                \/ call.g <= 1
                \/ call.g > call.p - 1
    \/ /\ call.op = "reply"
       /\ call.fail # "none"

\* C5: every failure path of the two handlers ends with the context torn
\* down and the session marked ERROR, and every call of a handler reports
\* the packet as used.
C5_FailurePaths ==
    (call.op \in {"group", "reply"}) =>
        /\ call.rc = "SSH_PACKET_USED"
        /\ C5_Failure => (session_state = "ERROR" /\ TornDown(next_crypto))

C5_Witness ==
    /\ call.op = "reply"
    /\ call.fail = "ssh_dh_import_next_pubkey_blob"
    /\ call.pre_session = "NONE"
    /\ session_state = "ERROR"

\* C6: once a handler has marked the session ERROR, and until the next
\* ssh_client_dhgex_init, no DH_GEX_GROUP or DH_GEX_REPLY changes the
\* handshake state or emits a packet.
C6_ErrorIsTerminal ==
    [][(exchange_failed /\ call'.op \in {"group", "reply"}) =>
           /\ dh_handshake_state' = dh_handshake_state
           /\ call'.out = <<>>]_vars

\* C7: a failed ssh_client_dhgex_init releases the partial context, leaves
\* the handshake state as it was and registers no callbacks.
C7_FailedInitiate ==
    (call.op = "init" /\ call.rc = "SSH_ERROR") =>
        /\ TornDown(next_crypto)
        /\ dh_handshake_state = call.pre_state
        /\ packet_callbacks = call.pre_callbacks

StateRank(state) ==
    CASE state = "INIT" -> 0
      [] state = "REQUEST_SENT" -> 1
      [] state = "INIT_SENT" -> 2
      [] state = "NEWKEYS_SENT" -> 3

\* C8: no call moves the handshake state backwards, and
\* ssh_client_dhgex_init changes it only from INIT.
C8_NoRegression ==
    [][/\ StateRank(dh_handshake_state') >= StateRank(dh_handshake_state)
       /\ (call'.op = "init" /\ dh_handshake_state' # dh_handshake_state)
              => dh_handshake_state = "INIT"]_vars

\* C9: NEWKEYS_SENT is set and NEWKEYS is emitted by the reply handler only
\* if the handshake was in INIT_SENT when DH_GEX_REPLY arrived.
C9_ReplyOnlyInInitSent ==
    (call.op = "reply"
     /\ (call.out # <<>> \/ dh_handshake_state # call.pre_state)) =>
        call.pre_state = "INIT_SENT"

\* C15: the reply handler sets NEWKEYS_SENT only when the unpacking, the
\* import of the host key, the shared secret and the sending of NEWKEYS have
\* all succeeded, and it has then sent exactly one NEWKEYS; when one of them
\* fails it leaves the handshake state as it was, marks the session ERROR
\* and tears the context down.
C15_ReplyCompletion ==
    (call.op = "reply") =>
        IF call.fail = "none"
        THEN /\ dh_handshake_state = "NEWKEYS_SENT"
             /\ call.out = <<Packet("NEWKEYS", <<>>, TRUE)>>
             /\ session_state = call.pre_session
        ELSE /\ dh_handshake_state = call.pre_state
             /\ session_state = "ERROR"
             /\ TornDown(next_crypto)
             /\ \A i \in 1..Len(call.out) : ~call.out[i].delivered

C15_Witness ==
    /\ call.op = "reply" /\ call.fail = "none"
    /\ call.pre_state = "INIT_SENT"
    /\ dh_handshake_state = "NEWKEYS_SENT"
    /\ Len(call.out) = 1 /\ call.out[1].type = "NEWKEYS"
    /\ session_state = "NONE"

\* C19: when the sending of DH_GEX_INIT fails in the group handler, the
\* handshake state is not INIT_SENT afterwards and the session is marked
\* ERROR.
C19_InitSentOnlyIfSent ==
    (call.op = "group" /\ call.fail = "ssh_packet_send") =>
        /\ dh_handshake_state # "INIT_SENT"
        /\ session_state = "ERROR"

(***************************************************************************)
(* The claims about the selection.                                         *)
(***************************************************************************)
\* the call met no failure of a primitive (fopen, strdup, bignum_hex2bn)
NoSelFailure == sel_fail = {}

\* a string copied from a qualifying record of the given size
FromRecordOfSize(str, n) ==
    /\ str # Null
    /\ str[1].size = n
    /\ str[1].type = 2
    /\ (str[1].tests \div 4) % 2 = 1

\* C10: with pmin <= pn <= pmax, once a qualifying record of size pn has
\* been read, whatever was read before it and is read after it, the best
\* size is pn and the strings held are those of one record of that size;
\* and the call then returns SSH_OK with *size = pn and the group of that
\* record (no primitive failing).
C10_ExactPreferredWins ==
    (/\ bounds.pmin <= bounds.pn /\ bounds.pn <= bounds.pmax
     /\ bounds.pn \in seen
     /\ NoSelFailure) =>
        /\ size = bounds.pn
        /\ sel_pc \in {"scan", "scanned"} =>
               /\ FromRecordOfSize(generator, bounds.pn)
               /\ FromRecordOfSize(modulus, bounds.pn)
               /\ generator[1].line = modulus[1].line
        /\ sel_pc = "done" =>
               /\ sel_rc = "SSH_OK"
               /\ FromRecordOfSize(group_g, bounds.pn)
               /\ FromRecordOfSize(group_p, bounds.pn)
               /\ group_g[1].line = group_p[1].line
               /\ group_g[1].field = "generator"
               /\ group_p[1].field = "modulus"

\* a size within the limits of the call
InRange(n) == bounds.pmin <= n /\ n <= bounds.pmax

\* the call has met a failure of strdup
AllocationFailed == sel_fail \cap {"strdup_generator", "strdup_modulus"} # {}

\* C17: during the scan, after every record, (1) best_nlines is the number
\* of the qualifying records of the best size read since the best size last
\* changed, and (2) when a best size is set it lies within [pmin, pmax] and
\* the strings held are those of one record of type 2 with the test bit
\* 0x04 and of that size; when none is set, none is held.
C17_ScanInvariant ==
    (sel_pc \in {"scan", "scanned"}) =>
        /\ best_nlines = Len(tied)
        /\ size = 0 => (generator = Null /\ modulus = Null)
        /\ size # 0 =>
               /\ InRange(size)
               /\ best_nlines >= 1
               /\ ~AllocationFailed =>
                      /\ FromRecordOfSize(generator, size)
                      /\ FromRecordOfSize(modulus, size)
                      /\ generator[1].line = modulus[1].line
                      /\ generator[1].field = "generator"
                      /\ modulus[1].field = "modulus"

\* a better size was found after a tie at a worse one, and the pair held is
\* of the better size
C17_Witness ==
    /\ sel_pc = "scan" /\ line = 3
    /\ Cardinality(seen) = 2
    /\ best_nlines = 1
    /\ size # 0 /\ generator # Null
    /\ generator[1].line = 3 /\ generator[1].size = size

\* C18: when strdup fails while a candidate is stored, the scan is over at
\* once, no string is held, and ssh_retrieve_dhgroup returns SSH_ERROR with
\* *p and *g NULL, whatever best size is recorded.
C18_AllocationFailure ==
    AllocationFailed =>
        /\ sel_pc \in {"scanned", "done"}
        /\ sel_rc = "SSH_ERROR"
        /\ generator = Null /\ modulus = Null
        /\ group_p = Null /\ group_g = Null

C18_Witness ==
    /\ sel_pc = "done"
    /\ sel_fail = {"strdup_modulus"}
    /\ size # 0
    /\ sel_rc = "SSH_ERROR"

\* C20: when ssh_retrieve_dhgroup is not running, every moduli file it
\* opened is closed.
C20_FilesClosed ==
    (sel_pc \in {"idle", "done"}) => open_files = 0

\* sizes above and below pn were read before and after the record of size
\* pn, and the call returned that record
C10_Witness ==
    /\ sel_pc = "done" /\ sel_rc = "SSH_OK"
    /\ bounds.pmin < bounds.pn /\ bounds.pn < bounds.pmax
    /\ seen = {bounds.pmin, bounds.pn, bounds.pmax}
    /\ size = bounds.pn
    /\ group_p # Null /\ group_p[1].line = 2

\* the qualifying sizes read in this call that are within the limits
SeenInRange == {n \in seen : InRange(n)}

\* C11: a call that meets no failure of a primitive and reads no qualifying
\* record of a size within [pmin, pmax] (an empty file included) does not
\* return the error result.
C11_NoGroupIsNotError ==
    (sel_pc = "done" /\ NoSelFailure /\ SeenInRange = {}) =>
        sel_rc # "SSH_ERROR"

SetMin(S) == CHOOSE n \in S : \A m \in S : n <= m
SetMax(S) == CHOOSE n \in S : \A m \in S : n >= m

\* the best size as the net effect of the ordering states it, from the set
\* of the sizes alone
ExpectedBest(S, pn) ==
    IF S = {} THEN 0
    ELSE IF pn \in S THEN pn
    ELSE IF \E n \in S : n >= pn THEN SetMin({n \in S : n >= pn})
    ELSE SetMax(S)

\* C12: with pmin <= pn <= pmax, the best size after any records, in any
\* order, is the one the set of the qualifying sizes within the limits
\* determines: pn if present, else the smallest size >= pn, else the largest
\* size < pn.
C12_OrderIndependent ==
    (/\ sel_pc \in {"scan", "scanned"}
     /\ NoSelFailure
     /\ bounds.pmin <= bounds.pn /\ bounds.pn <= bounds.pmax) =>
        size = ExpectedBest(SeenInRange, bounds.pn)

RECURSIVE Factorial(_)
Factorial(n) == IF n = 0 THEN 1 ELSE n * Factorial(n - 1)

\* the combinations of draws r_1 .. r_k, r_n in 0..n-1
Draws(k) == {d \in [1..k -> 0..(k - 1)] : \A n \in 1..k : d[n] < n}

\* the record that holds the slot after the draws d: the last one whose draw
\* was 0
FinalChoice(d) ==
    CHOOSE n \in DOMAIN d :
        d[n] = 0 /\ \A m \in DOMAIN d : (m > n => d[m] # 0)

\* the draws made for the records tied at the best size
TiedDraws == [n \in 1..Len(tied) |-> tied[n].draw]

\* C13: the n-th qualifying record at the best size replaces the held pair
\* exactly when its draw r_n (the random number modulo n) is 0, the first
\* always; so the pair held after k tied records is that of the last record
\* whose draw was 0, each of the k records is that one in (k-1)! of the k!
\* combinations of draws, and the pair held is never of another size.
C13_Reservoir ==
    (sel_pc \in {"scan", "scanned"} /\ NoSelFailure /\ tied # <<>>) =>
        LET k == Len(tied)
            final == tied[FinalChoice(TiedDraws)]
        IN  /\ tied[1].draw = 0
            /\ FromRecordOfSize(generator, size)
            /\ FromRecordOfSize(modulus, size)
            /\ generator[1].line = final.line
            /\ modulus[1].line = final.line
            /\ Cardinality(Draws(k)) = Factorial(k)
            /\ \A j \in 1..k :
                   Cardinality({d \in Draws(k) : FinalChoice(d) = j})
                       = Factorial(k - 1)

\* three records tied, the second holds the slot at the end of the scan
C13_Witness ==
    /\ sel_pc = "scanned" /\ NoSelFailure
    /\ Len(tied) = 3
    /\ tied[2].draw = 0 /\ tied[3].draw # 0
    /\ generator # Null /\ generator[1].line = tied[2].line

(***************************************************************************)
(* The claims about the reading of the moduli file.                        *)
(***************************************************************************)
RECURSIVE FirstLineLen(_, _)
FirstLineLen(text, i) ==
    IF i > Len(text) \/ text[i].kind = "nl" THEN i - 1
    ELSE FirstLineLen(text, i + 1)

\* the first line of the text
FirstLine == SubSeq(moduli, 1, FirstLineLen(moduli, 1))

\* the well-formed line that follows it
SecondLine ==
    SubSeq(moduli, Len(FirstLine) + 2, Len(moduli) - 1)

\* a line that is no comment and has not seven fields, or has a field that
\* is no number where a number belongs
Malformed(l) ==
    /\ ~(l # <<>> /\ l[1].kind = "hash")
    /\ \/ Len(l) # 7
       \/ \E c \in 2..5 : l[c].kind # "num"

\* the entry passes line 387
EntryQualifies(entry) == entry[2].val = 2 /\ (entry[3].val \div 4) % 2 = 1

\* C14: of a moduli file of one malformed line and one well-formed,
\* qualifying line, the scan reads to the end and the one entry that goes on
\* to the selection is the second line, field for field.
C14_MalformedLineSkipped ==
    (moduli_pc = "done" /\ Malformed(FirstLine)) =>
        SelectSeq(entries, EntryQualifies) = <<SecondLine>>

(***************************************************************************)
(* The claims about the comparison of two sizes.                           *)
(***************************************************************************)
\* the ordering of the sizes as a table read from the top, the unset
\* current size being 0
SizePreferenceTable(pmin, pn, pmax, current, proposed) ==
    IF proposed < pmin \/ proposed > pmax THEN FALSE
    ELSE IF current = 0 THEN TRUE
    ELSE IF current = proposed THEN FALSE
    ELSE IF current = pn THEN FALSE
    ELSE IF proposed >= pn /\ proposed < current THEN TRUE
    ELSE IF proposed <= pn /\ proposed > current THEN TRUE
    ELSE IF proposed >= pn /\ current < pn THEN TRUE
    ELSE FALSE

\* C16: dhgroup_better_size returns for every input what the table gives,
\* the inputs with the current size unset and pn = 0 included.
C16_TableExact ==
    (cmp_out # Null) =>
        cmp_out[1] = SizePreferenceTable(cmp_in.pmin, cmp_in.pn, cmp_in.pmax,
                                         cmp_in.current_size,
                                         cmp_in.proposed_size)

====
